---- MODULE Spec2Model ----
(***************************************************************************)
(* A model of utils/test_runners.py of py-mcp-playwright: TestRunner (the  *)
(* pytest launcher), ContinuousTestRunner (the watchdog-driven watch loop) *)
(* and create_test_report (the HTML report).                               *)
(*                                                                         *)
(* Text is a sequence of one-character strings, so that decoding,          *)
(* formatting and re-parsing are computed character by character.  A       *)
(* Python dict is a function on its keys; a dict that lacks a key lacks it *)
(* in DOMAIN.  An environment mapping is a function on EnvVars whose value *)
(* Unset stands for "the variable is not in the mapping".                  *)
(***************************************************************************)
EXTENDS Integers, Sequences, FiniteSets, TLC

(***************************************************************************)
(* Bounds of the model.                                                    *)
(***************************************************************************)
\* run_parallel_tests is called with workers in 0..MaxWorkers (or omitted)
MaxWorkers == 12
\* run_with_coverage is called with min_coverage 0, 10, ..., 10 * MaxCoverageTens
\* (or omitted)
MaxCoverageTens == 10
\* a child writes at most MaxOutLen bytes to stdout and stderr together
MaxOutLen == 1
\* at most MaxProcs child processes exist at a time
MaxProcs == 2
\* the observer's event queue holds at most MaxQueue events
MaxQueue == 2
\* at most MaxEvents file-system events are reported in a watch session
MaxEvents == 3
\* a result handed to create_test_report holds at most MaxReportLen characters
\* of stdout and stderr together
MaxReportLen == 2
\* the captured characters of a result whose report meets a failing file system
MaxFaultLen == 0
\* the retry_count an APIConfig is given
MaxRetryCount == 3
\* the count of a measurement
MaxCount == 3

(***************************************************************************)
(* Program constants.                                                      *)
(***************************************************************************)
DefaultWorkers == 4
DefaultMinCoverage == 80
DefaultRetryCount == 3
\* retry_delay, 1.0 s, in tenths of a second
DefaultRetryDelay == 10

VARIABLES
    environ,    \* os.environ, the ambient process environment
    runner,     \* the TestRunner instance: [base_dir, results]
    procs,      \* the child processes that are running
    frame,      \* the activation of _run_pytest blocked in subprocess.run, or NoCall
    ret,        \* the dict _run_pytest returned, NoResult while a call is in progress
    outcome,    \* what happened to the child of the call that returned ret (history)
    reportIn,   \* the results dict of the last create_test_report call, or NoResult
    reportFile, \* the content of the report file, or NoFile
    repeat,     \* whether the last create_test_report call had the results of the
                \* call before it, and whether it rendered the same document (history)
    openFiles,  \* the file objects that are open
    reportCall  \* how the last create_test_report call ended, and its html_content
                \* (history)

runnerVars == <<environ, runner, procs, frame, ret, outcome>>
reportVars == <<reportIn, reportFile, repeat, openFiles, reportCall>>

VARIABLES
    mainPc,     \* where the thread that called watch_and_run is
    patterns,   \* watch_and_run's patterns, once defaulted
    observer,   \* the observer thread: "new", "running", "stopping", "stopped"
    eventQueue, \* the observer's event queue
    lastItem,   \* the event queue's _last_item, <<>> for None
    handlerOut, \* the lines on_modified has printed since it was last entered
    mainOut,    \* the lines watch_and_run has printed
    trigger,    \* the queue entry whose dispatch started the last run (history)
    stats       \* counts of events and of runs (history)

watchVars ==
    <<mainPc, patterns, observer, eventQueue, lastItem, handlerOut, mainOut,
      trigger, stats>>

VARIABLES
    tree,       \* what is at each path under the directory pytest runs in
    testPc      \* where the test in progress is: "between", "body", "setup error"

fixtureVars == <<tree, testPc>>

VARIABLES
    config,     \* the APIConfig of the APITestHelper: [retry_count, retry_delay]
    retry,      \* the make_request_with_retry call: where it is, the loop index
                \* attempt, the local variable response, and how the call ended
    retryLog    \* the attempts the call made and its sleeps, in order (history)

retryVars == <<config, retry, retryLog>>

VARIABLES
    requests,     \* the requests of a measurement: count, and what request_func
                  \* does in each of them
    measure,      \* the measure_multiple_requests call in progress: its mode,
                  \* its loop index, its response_times and its errors
    threads,      \* the worker threads of the concurrent mode
    result_queue, \* the queue the workers put their results in
    measured      \* the dict each mode returned, NoResult before (history)

perfVars == <<requests, measure, threads, result_queue, measured>>

VARIABLES
    scriptPc,      \* where the runner script run as __main__ is
    smoke_results, \* the script's smoke_results, NoResult while unassigned
    full_results,  \* the script's full_results, NoResult while unassigned
    fileSystem,    \* the content of each report file the script writes
    scriptLog      \* the calls the script made and their returns, in order
                   \* (history)

scriptVars == <<scriptPc, smoke_results, full_results, fileSystem, scriptLog>>

helperVars == <<retryVars, perfVars, scriptVars>>

vars == <<runnerVars, reportVars, watchVars, fixtureVars, helperVars>>

(***************************************************************************)
(* Values.                                                                 *)
(***************************************************************************)
NoCall == [none |-> TRUE]
NoResult == [none |-> TRUE]
NoOutcome == [none |-> TRUE]
NoFile == <<"(no file)">>
NoEntry == [none |-> TRUE]
\* env=None, the default of _run_pytest's env parameter
NoneEnv == [none |-> TRUE]
\* an argument left out of a call is <<>>, an argument given is <<value>>
Omitted == <<>>

EnvVars == {"PLAYWRIGHT_BROWSER", "HEADLESS"}
Unset == "(unset)"
EmptyEnv == [v \in EnvVars |-> Unset]
\* the environments the process may have been started in
AmbientEnvs ==
    { EmptyEnv,
      [EmptyEnv EXCEPT !["HEADLESS"] = "true", !["PLAYWRIGHT_BROWSER"] = "firefox"] }
Browsers == {"chromium", "firefox", "webkit", ""}

\* the process's working directory, Path.cwd()
Cwd == "/repo"
BaseDirArgs == {Omitted, <<"/elsewhere">>}

\* sys.executable
SysExecutable == "/usr/bin/python3"

\* what a child can exit with: 0, pytest's failure codes, death by signal
ExitCodes == {0, 1, 2, -9}

(***************************************************************************)
(* Python's built-in conversions.                                          *)
(***************************************************************************)
Digit(d) == <<"0", "1", "2", "3", "4", "5", "6", "7", "8", "9">>[d + 1]

RECURSIVE StrNat(_)
StrNat(n) == IF n < 10 THEN Digit(n) ELSE StrNat(n \div 10) \o Digit(n % 10)

\* str(n) of an int
StrInt(n) == IF n < 0 THEN "-" \o StrNat(0 - n) ELSE StrNat(n)

\* " ".join(words)
RECURSIVE Join(_)
Join(words) ==
    IF Len(words) = 0 THEN ""
    ELSE IF Len(words) = 1 THEN words[1]
    ELSE words[1] \o " " \o Join(Tail(words))

\* bool(d) of an environment dict (None is falsy too)
Truthy(env) == env # NoneEnv /\ \E v \in EnvVars : env[v] # Unset

\* d.get(key, default)
Get(d, key, default) == IF key \in DOMAIN d THEN d[key] ELSE default

(***************************************************************************)
(* The bytes a child writes, and their decoding (text=True): the pipes are *)
(* read to the end as bytes and then decoded as UTF-8, stdout first.  The  *)
(* byte 255 starts no UTF-8 sequence; the model's alphabet has no CR or LF,*)
(* so newline translation has nothing to do.                               *)
(***************************************************************************)
OutBytes == {38, 60, 62, 103, 255}
InvalidByte(b) == b >= 128
Chr(b) == CASE b = 38 -> "&" [] b = 60 -> "<" [] b = 62 -> ">" [] b = 103 -> "g"

RECURSIVE BytesOfLen(_)
BytesOfLen(n) ==
    IF n = 0 THEN {<<>>}
    ELSE {Append(s, b) : s \in BytesOfLen(n - 1), b \in OutBytes}

BytesUpTo(n) == UNION {BytesOfLen(k) : k \in 0..n}

\* the (stdout, stderr) pairs of at most n bytes together
OutputsUpTo(n) ==
    {<<o, e>> \in BytesUpTo(n) \X BytesUpTo(n) : Len(o) + Len(e) <= n}

\* the (stdout, stderr) pairs a child can have written when it exits
ChildOutputs == OutputsUpTo(MaxOutLen)

\* bytes.decode("utf-8"): the text, or the position of the first bad byte
Decode(bytes) ==
    LET bad == {i \in 1..Len(bytes) : InvalidByte(bytes[i])}
    IN  IF bad = {}
        THEN [ok |-> TRUE, text |-> [i \in 1..Len(bytes) |-> Chr(bytes[i])]]
        ELSE [ok |-> FALSE,
              pos |-> (CHOOSE i \in bad : \A j \in bad : i <= j) - 1]

\* str(e) of the UnicodeDecodeError
StrDecodeError(d) ==
    "'utf-8' codec can't decode byte 0xff in position " \o StrInt(d.pos)
        \o ": invalid start byte"

\* str(e) of an OSError raised with errno, strerror and filename
StrOSError(ex) ==
    "[Errno " \o StrInt(ex.errno) \o "] " \o ex.strerror \o ": '"
        \o ex.filename \o "'"

\* the OSErrors with which starting the child fails
StartupErrors(cmd, cwd) ==
    { [errno |-> 2, strerror |-> "No such file or directory", filename |-> cmd[1]],
      [errno |-> 13, strerror |-> "Permission denied", filename |-> cmd[1]],
      [errno |-> 2, strerror |-> "No such file or directory", filename |-> cwd] }

(***************************************************************************)
(* TestRunner.                                                             *)
(***************************************************************************)
\* TestRunner.__init__
NewRunner(base_dir) ==
    [base_dir |-> IF base_dir # Omitted THEN base_dir[1] ELSE Cwd,
     results |-> <<>>]

\* the argument lists of the run_* methods
ParallelArgs_IgnoresWorkers(workers) == <<"-n", StrInt(DefaultWorkers), "-v">>
SmokeArgs == <<"-m", "smoke", "-v">>
ApiArgs == <<"-m", "api", "-v">>
UiArgs == <<"-m", "ui", "-v">>
IntegrationArgs == <<"-m", "integration", "-v">>
PerformanceArgs == <<"-m", "slow", "-v", "--tb=short">>
ParallelArgs(workers) ==
    <<"-n", StrInt(IF workers = Omitted THEN DefaultWorkers ELSE workers[1]), "-v">>
CoverageArgs(min_coverage) ==
    << "--cov=src",
       "--cov-report=html",
       "--cov-report=term-missing",
       "--cov-fail-under="
           \o StrInt(IF min_coverage = Omitted THEN DefaultMinCoverage
                     ELSE min_coverage[1]),
       "-v" >>
BrowserArgs == <<"-v">>

BrowserEnv_AmbientWins(browser) ==
    IF environ["PLAYWRIGHT_BROWSER"] # Unset THEN environ
    ELSE [environ EXCEPT !["PLAYWRIGHT_BROWSER"] = browser]

\* env = os.environ.copy(); env["PLAYWRIGHT_BROWSER"] = browser
BrowserEnv(browser) == [environ EXCEPT !["PLAYWRIGHT_BROWSER"] = browser]

RunPytestCmd_DropsFirst(args) == <<SysExecutable, "-m", "pytest">> \o Tail(args)

\* cmd = [sys.executable, "-m", "pytest"] + args
RunPytestCmd(args) == <<SysExecutable, "-m", "pytest">> \o args

\* env=env or os.environ.copy()
ChildEnv(env) == IF Truthy(env) THEN env ELSE environ

\* the dict returned when subprocess.run returned a CompletedProcess
CompletedResult(cmd, returncode, stdout, stderr) ==
    [success |-> returncode = 0,
     returncode |-> returncode,
     stdout |-> stdout,
     stderr |-> stderr,
     command |-> Join(cmd)]

ExceptResult_NoMessage(cmd, message) ==
    [success |-> FALSE, error |-> "", command |-> Join(cmd)]

\* the dict returned from the except branch
ExceptResult(cmd, message) ==
    [success |-> FALSE, error |-> message, command |-> Join(cmd)]

\* what _run_pytest returns once its child has exited with returncode, having
\* written the bytes rawOut and rawErr
ExitResult(cmd, returncode, rawOut, rawErr) ==
    LET o == Decode(rawOut)
        e == Decode(rawErr)
    IN  IF ~o.ok THEN ExceptResult(cmd, StrDecodeError(o))
        ELSE IF ~e.ok THEN ExceptResult(cmd, StrDecodeError(e))
        ELSE CompletedResult(cmd, returncode, o.text, e.text)

\* the process ids that are free; a new child gets the lowest
FreePids == {p \in 1..MaxProcs : \A q \in procs : q.pid # p}
NewPid == CHOOSE p \in FreePids : \A q \in FreePids : p <= q

Blocked_Detached(call, pid) == NoCall

\* subprocess.run blocks its caller until the child has exited
Blocked(call, pid) == [stage |-> "waiting", call |-> call, pid |-> pid]

\* _run_pytest from its entry to the call of subprocess.run: the command and the
\* environment of the child are fixed
RunPytest(method, arg, args, env) ==
    /\ frame = NoCall
    /\ frame' = [stage |-> "starting",
                 call |-> [method |-> method, arg |-> arg, args |-> args,
                           cmd |-> RunPytestCmd(args), env |-> ChildEnv(env)]]
    /\ ret' = NoResult
    /\ outcome' = NoOutcome
    /\ UNCHANGED <<environ, runner, procs>>

\* subprocess.run starts the child and waits for it
SubprocessStarts ==
    /\ frame # NoCall /\ frame.stage = "starting"
    /\ FreePids # {}
    /\ procs' = procs \cup
          {[pid |-> NewPid, cmd |-> frame.call.cmd, cwd |-> runner.base_dir,
            env |-> frame.call.env]}
    /\ frame' = Blocked(frame.call, NewPid)
    /\ UNCHANGED <<environ, runner, ret, outcome>>

\* subprocess.run cannot start the child: the OSError is caught and _run_pytest
\* returns the dict of its except branch
SubprocessFailsToStart ==
    /\ frame # NoCall /\ frame.stage = "starting"
    /\ \E ex \in StartupErrors(frame.call.cmd, runner.base_dir) :
          ret' = ExceptResult(frame.call.cmd, StrOSError(ex))
    /\ outcome' = [started |-> FALSE, call |-> frame.call]
    /\ frame' = NoCall
    /\ UNCHANGED <<environ, runner, procs>>

run_smoke_tests == RunPytest("smoke", Omitted, SmokeArgs, NoneEnv)
run_api_tests == RunPytest("api", Omitted, ApiArgs, NoneEnv)
run_ui_tests == RunPytest("ui", Omitted, UiArgs, NoneEnv)
run_integration_tests == RunPytest("integration", Omitted, IntegrationArgs, NoneEnv)
run_performance_tests == RunPytest("performance", Omitted, PerformanceArgs, NoneEnv)
run_parallel_tests ==
    \E workers \in {Omitted} \cup {<<w>> : w \in 0..MaxWorkers} :
        RunPytest("parallel", workers, ParallelArgs(workers), NoneEnv)
run_with_coverage ==
    \E min_coverage \in {Omitted} \cup {<<10 * t>> : t \in 0..MaxCoverageTens} :
        RunPytest("coverage", min_coverage, CoverageArgs(min_coverage), NoneEnv)
run_browser_specific_tests_SetsAmbient ==
    \E browser \in Browsers :
        /\ frame = NoCall
        /\ environ' = BrowserEnv(browser)
        /\ frame' = [stage |-> "starting",
                     call |-> [method |-> "browser", arg |-> <<browser>>,
                               args |-> BrowserArgs, cmd |-> RunPytestCmd(BrowserArgs),
                               env |-> BrowserEnv(browser)]]
        /\ ret' = NoResult
        /\ outcome' = NoOutcome
        /\ UNCHANGED <<runner, procs>>

run_browser_specific_tests ==
    \E browser \in Browsers :
        RunPytest("browser", <<browser>>, BrowserArgs, BrowserEnv(browser))

RunPytestReturns_KeepsWaiting ==
    /\ frame # NoCall /\ frame.stage = "waiting"
    /\ \E p \in procs, returncode \in ExitCodes, out \in ChildOutputs :
        /\ p.pid = frame.pid
        /\ procs' = procs \ {p}
        /\ ret' = ExitResult(p.cmd, returncode, out[1], out[2])
        /\ outcome' = [started |-> TRUE, call |-> frame.call, proc |-> p,
                       exitcode |-> returncode, out |-> out]
    /\ frame' = frame
    /\ UNCHANGED <<environ, runner>>

RunPytestReturns_Retries ==
    /\ frame # NoCall /\ frame.stage = "waiting"
    /\ \E p \in procs, returncode \in ExitCodes, out \in ChildOutputs :
        /\ p.pid = frame.pid
        /\ procs' = procs \ {p}
        /\ ret' = ExitResult(p.cmd, returncode, out[1], out[2])
        /\ outcome' = [started |-> TRUE, call |-> frame.call, proc |-> p,
                       exitcode |-> returncode, out |-> out]
        /\ frame' = IF returncode = 0 THEN NoCall
                    ELSE [stage |-> "starting", call |-> frame.call]
    /\ UNCHANGED <<environ, runner>>

RunPytestReturns_CachesResult ==
    /\ frame # NoCall /\ frame.stage = "waiting"
    /\ \E p \in procs, returncode \in ExitCodes, out \in ChildOutputs :
        /\ p.pid = frame.pid
        /\ procs' = procs \ {p}
        /\ ret' = ExitResult(p.cmd, returncode, out[1], out[2])
        /\ outcome' = [started |-> TRUE, call |-> frame.call, proc |-> p,
                       exitcode |-> returncode, out |-> out]
        /\ runner' = [runner EXCEPT !.results = ret']
    /\ frame' = NoCall
    /\ UNCHANGED environ

\* the child of the blocked call exits; subprocess.run returns (or raises on
\* undecodable output) and _run_pytest returns its dict
RunPytestReturns ==
    /\ frame # NoCall /\ frame.stage = "waiting"
    /\ \E p \in procs, returncode \in ExitCodes, out \in ChildOutputs :
        /\ p.pid = frame.pid
        /\ procs' = procs \ {p}
        /\ ret' = ExitResult(p.cmd, returncode, out[1], out[2])
        /\ outcome' = [started |-> TRUE, call |-> frame.call, proc |-> p,
                       exitcode |-> returncode, out |-> out]
    /\ frame' = NoCall
    /\ UNCHANGED <<environ, runner>>

(***************************************************************************)
(* create_test_report.  The document is a sequence of items: each piece of *)
(* the template's markup and each piece of its fixed text is one item, and *)
(* text put into a placeholder goes in as it is, one item per character.   *)
(* The template's indentation, line breaks and style sheet are left out.   *)
(***************************************************************************)
\* bool(results.get("success")): a missing key gives None, which is falsy
Succeeded(results) == Get(results, "success", FALSE) = TRUE

\* bool(results.get("stderr")): a missing key and the empty text are falsy
HasStderr(results) == Len(Get(results, "stderr", <<>>)) > 0

\* status = "PASSED" if results.get("success") else "FAILED"
Status_KeyPresent(results) == IF "success" \in DOMAIN results THEN "PASSED" ELSE "FAILED"

Status(results) == IF Succeeded(results) THEN "PASSED" ELSE "FAILED"

\* status_class = "success" if results.get("success") else "failure"
StatusClass(results) ==
    IF Succeeded(results) THEN "success" ELSE "failure"

StderrSection_Stale(results) ==
    IF HasStderr(results)
    THEN <<"<h2>", "Errors", "</h2>", "<pre class=\"failure\">">>
            \o results["stderr"] \o <<"</pre>">>
    ELSE IF reportIn # NoResult /\ HasStderr(reportIn)
    THEN <<"<h2>", "Errors", "</h2>", "<pre class=\"failure\">">>
            \o reportIn["stderr"] \o <<"</pre>">>
    ELSE <<>>

\* stderr_section: empty, or the Errors heading and the stderr text
StderrSection(results) ==
    IF HasStderr(results)
    THEN <<"<h2>", "Errors", "</h2>", "<pre class=\"failure\">">>
            \o results["stderr"] \o <<"</pre>">>
    ELSE <<>>

\* "{returncode}" of results.get("returncode", "N/A")
ReturncodeText(results) ==
    IF "returncode" \in DOMAIN results THEN StrInt(results["returncode"]) ELSE "N/A"

\* html_template.format(...)
Render(results) ==
    << "<!DOCTYPE html>", "<html>", "<head>",
       "<title>", "Test Report", "</title>", "<style>", "</style>", "</head>",
       "<body>",
       "<h1>", "Test Execution Report", "</h1>",
       "<h2>", "Summary", "</h2>",
       "<p class=\"" \o StatusClass(results) \o "\">", "Status: ", Status(results), "</p>",
       "<p>", "Return Code: ", ReturncodeText(results), "</p>",
       "<p>", "Command: ", "<code>", Get(results, "command", "N/A"), "</code>", "</p>",
       "<h2>", "Output", "</h2>",
       "<pre>" >>
    \o Get(results, "stdout", <<"No output">>)
    \o << "</pre>" >>
    \o StderrSection(results)
    \o << "</body>", "</html>" >>

\* the command of the results reported on
ReportedCommands == {RunPytestCmd(SmokeArgs)}

\* the dicts create_test_report is called with: what _run_pytest returns, for
\* children that wrote up to n bytes
ReportInputsUpTo(n) ==
    UNION { {ExitResult(cmd, rc, out[1], out[2]) :
                rc \in {0, 2}, out \in OutputsUpTo(n)}
            \cup {ExceptResult(cmd, StrOSError(ex)) : ex \in StartupErrors(cmd, Cwd)}
          : cmd \in ReportedCommands }

ReportInputs == ReportInputsUpTo(MaxReportLen)

\* the dicts whose report the file system may fail to take
FaultedInputs == ReportInputsUpTo(MaxFaultLen)

\* The file system fails only where the reports are small: in a call with one
\* of FaultedInputs that follows no call or a call with one of them; and the
\* call that follows a failed one has one of them too.
MayFail(results) ==
    /\ results \in FaultedInputs
    /\ reportIn = NoResult \/ reportIn \in FaultedInputs

FollowsFailure == reportCall.exit \in {"open raised", "write raised"}

\* what the file system does to the call: nothing, open() raises OSError, or
\* the write (in f.write, or in the flush of f.close) raises OSError
FileFaults == {"none", "open", "write"}

\* what a write that failed has left in the file that open(output_file, "w")
\* emptied: nothing, or the document short of its end
PartialWrites(doc) == {SubSeq(doc, 1, k) : k \in {0, Len(doc) - 1}}

\* the file object of "with open(output_file, "w") as f"
ReportHandle == "f"

CloseOnExit_ReturnOnly(files, f, raised) == IF raised THEN files ELSE files \ {f}

\* the end of the with block: f.__exit__ closes f, on return and on exception
CloseOnExit(files, f, raised) == files \ {f}

\* create_test_report(results): the report is rendered and written to the file
create_test_report ==
    \E results \in ReportInputs, fault \in FileFaults :
        LET html_content == Render(results)
            opened == openFiles \cup {ReportHandle}
        IN  /\ fault # "none" => MayFail(results)
            /\ FollowsFailure => results \in FaultedInputs
            /\ reportIn' = results
            /\ repeat' = [sameIn |-> reportIn = results,
                          sameOut |-> reportCall.doc = html_content]
            /\ CASE fault = "open" ->
                      /\ reportFile' = reportFile
                      /\ openFiles' = openFiles
                      /\ reportCall' = [exit |-> "open raised", doc |-> html_content]
                 [] fault = "write" ->
                      /\ reportFile' \in PartialWrites(html_content)
                      /\ openFiles' = CloseOnExit(opened, ReportHandle, TRUE)
                      /\ reportCall' = [exit |-> "write raised", doc |-> html_content]
                 [] fault = "none" ->
                      /\ reportFile' = html_content
                      /\ openFiles' = CloseOnExit(opened, ReportHandle, FALSE)
                      /\ reportCall' = [exit |-> "returned", doc |-> html_content]
            /\ UNCHANGED <<runnerVars, watchVars, fixtureVars, helperVars>>

(***************************************************************************)
(* ContinuousTestRunner.watch_and_run.  The watchdog Observer is one       *)
(* thread: emitters put the events of the watched tree into its queue, and *)
(* the thread takes them out one at a time and calls the handler, whose    *)
(* on_modified runs on that thread and returns before the next event is    *)
(* taken.  The queue skips an event equal to the one put last and not yet  *)
(* taken (watchdog's SkipRepeatsQueue).  A path is a sequence of           *)
(* characters.                                                             *)
(***************************************************************************)
StarPy == <<"*", ".", "p", "y">>
StarJs == <<"*", ".", "j", "s">>
FileAPy == <<"a", ".", "p", "y">>
FileAJs == <<"a", ".", "j", "s">>
DirDPy == <<"d", ".", "p", "y">>
AStarPy == <<"a", "*", "p", "y">>

\* the events the watched tree can produce
Events ==
    { [event_type |-> "modified", src_path |-> FileAPy, is_directory |-> FALSE],
      [event_type |-> "modified", src_path |-> FileAJs, is_directory |-> FALSE],
      [event_type |-> "modified", src_path |-> DirDPy, is_directory |-> TRUE],
      [event_type |-> "created", src_path |-> FileAPy, is_directory |-> FALSE] }

\* the patterns argument: left out, an empty list, or a list of one pattern
PatternArgs == {Omitted, <<<<>>>>, <<<<StarJs>>>>, <<<<AStarPy>>>>}

\* patterns = patterns or ["*.py"]
DefaultedPatterns(arg) ==
    IF arg = Omitted \/ arg[1] = <<>> THEN <<StarPy>> ELSE arg[1]

\* p.replace("*", "")
WithoutStars(p) == SelectSeq(p, LAMBDA c : c # "*")

\* path.endswith(suffix)
EndsWith(path, suffix) ==
    /\ Len(suffix) <= Len(path)
    /\ SubSeq(path, Len(path) - Len(suffix) + 1, Len(path)) = suffix

\* not event.is_directory and any(event.src_path.endswith(p.replace("*", ""))
\* for p in patterns)
PassesFilter(event) ==
    /\ ~event.is_directory
    /\ \E i \in 1..Len(patterns) : EndsWith(event.src_path, WithoutStars(patterns[i]))

\* the handler method the event is dispatched to is on_modified
IsModified(event) == event.event_type = "modified"

\* a run is in flight: on_modified is inside run_smoke_tests, or a child runs
RunInFlight == frame # NoCall \/ procs # {}

WatchdogMissing_Silent ==
    /\ mainPc = "idle"
    /\ mainPc' = "returned"
    /\ UNCHANGED <<patterns, observer, eventQueue, lastItem, handlerOut, mainOut, trigger, stats>>
    /\ UNCHANGED <<runnerVars, reportVars, fixtureVars, helperVars>>

\* the import of watchdog fails: the message is printed and the call returns
WatchdogMissing ==
    /\ mainPc = "idle"
    /\ mainPc' = "returned"
    /\ mainOut' = Append(mainOut,
          "watchdog package required for file watching. Install with: pip install watchdog")
    /\ UNCHANGED <<patterns, observer, eventQueue, lastItem, handlerOut, trigger, stats>>
    /\ UNCHANGED <<runnerVars, reportVars, fixtureVars, helperVars>>

\* watch_and_run up to its sleep loop: the handler is scheduled, the observer
\* started
WatchAndRun ==
    /\ mainPc = "idle"
    /\ \E arg \in PatternArgs : patterns' = DefaultedPatterns(arg)
    /\ observer' = "running"
    /\ mainPc' = "watching"
    /\ mainOut' = Append(mainOut, "Watching tests for changes... Press Ctrl+C to stop.")
    /\ UNCHANGED <<eventQueue, lastItem, handlerOut, trigger, stats>>
    /\ UNCHANGED <<runnerVars, reportVars, fixtureVars, helperVars>>

\* an emitter reports an event: EventQueue.put
EmitEvent ==
    /\ observer = "running"
    /\ stats.emitted < MaxEvents
    /\ Len(eventQueue) < MaxQueue
    /\ \E event \in Events :
          IF lastItem = <<event>>
          THEN UNCHANGED <<eventQueue, lastItem>> /\ stats' = [stats EXCEPT !.emitted = @ + 1]
          ELSE /\ eventQueue' = Append(eventQueue, [event |-> event, midRun |-> RunInFlight])
               /\ lastItem' = <<event>>
               /\ stats' =
                    [stats EXCEPT
                        !.emitted = @ + 1,
                        !.arrivedIdle =
                            IF IsModified(event) /\ PassesFilter(event) /\ ~RunInFlight
                            THEN @ + 1 ELSE @]
    /\ UNCHANGED <<mainPc, patterns, observer, handlerOut, mainOut, trigger>>
    /\ UNCHANGED <<runnerVars, reportVars, fixtureVars, helperVars>>

\* the observer thread takes the next event and dispatches it; a file
\* modification that passes the filter enters on_modified, which prints and
\* calls run_smoke_tests.  (The thread may take one more event after stop() if
\* it was already past the check of its stop flag.)
DispatchEvent ==
    /\ observer \in {"running", "stopping"}
    /\ frame = NoCall
    /\ eventQueue # <<>>
    /\ LET entry == Head(eventQueue)
       IN  /\ eventQueue' = Tail(eventQueue)
           /\ lastItem' = IF Len(eventQueue) = 1 THEN <<>> ELSE lastItem
           /\ IF IsModified(entry.event) /\ PassesFilter(entry.event)
              THEN /\ run_smoke_tests
                   /\ handlerOut' =
                        << <<"File changed: ", entry.event.src_path>>, <<"Running tests...">> >>
                   /\ trigger' = entry
                   /\ stats' = [stats EXCEPT !.runs = @ + 1]
              ELSE /\ UNCHANGED runnerVars
                   /\ UNCHANGED <<handlerOut, trigger, stats>>
    /\ UNCHANGED <<mainPc, patterns, observer, mainOut>>
    /\ UNCHANGED <<reportVars, fixtureVars, helperVars>>

OnModifiedPrints_StderrAlways(result) ==
    handlerOut' = handlerOut \o
        IF result["success"]
        THEN << <<"Tests passed!">>, <<Get(result, "stderr", <<>>)>> >>
        ELSE << <<"Tests failed!">>, <<Get(result, "stderr", <<>>)>> >>

\* on_modified after run_smoke_tests has returned result: the verdict is printed
OnModifiedPrints(result) ==
    handlerOut' = handlerOut \o
        IF result["success"]
        THEN << <<"Tests passed!">> >>
        ELSE << <<"Tests failed!">>, <<Get(result, "stderr", <<>>)>> >>

\* the child of on_modified's run starts
WatchRunStarts ==
    /\ SubprocessStarts
    /\ UNCHANGED <<watchVars, reportVars, fixtureVars, helperVars>>

\* the child of on_modified's run cannot be started
WatchRunFailsToStart ==
    /\ SubprocessFailsToStart
    /\ OnModifiedPrints(ret')
    /\ UNCHANGED <<mainPc, patterns, observer, eventQueue, lastItem, mainOut, trigger, stats>>
    /\ UNCHANGED <<reportVars, fixtureVars, helperVars>>

\* the child of on_modified's run exits
WatchRunReturns ==
    /\ RunPytestReturns
    /\ OnModifiedPrints(ret')
    /\ UNCHANGED <<mainPc, patterns, observer, eventQueue, lastItem, mainOut, trigger, stats>>
    /\ UNCHANGED <<reportVars, fixtureVars, helperVars>>

\* Ctrl+C in the sleep loop: observer.stop(), the message, then observer.join()
KeyboardInterrupt ==
    /\ mainPc = "watching"
    /\ observer' = "stopping"
    /\ mainOut' = Append(mainOut, "Stopped watching for changes.")
    /\ mainPc' = "joining"
    /\ UNCHANGED <<patterns, eventQueue, lastItem, handlerOut, trigger, stats>>
    /\ UNCHANGED <<runnerVars, reportVars, fixtureVars, helperVars>>

ObserverExits_Abandons ==
    /\ observer = "stopping"
    /\ observer' = "stopped"
    /\ UNCHANGED <<mainPc, patterns, eventQueue, lastItem, handlerOut, mainOut, trigger, stats>>
    /\ UNCHANGED <<runnerVars, reportVars, fixtureVars, helperVars>>

\* the observer thread, not inside a dispatch, sees its stop flag and ends
ObserverExits ==
    /\ observer = "stopping"
    /\ frame = NoCall
    /\ observer' = "stopped"
    /\ UNCHANGED <<mainPc, patterns, eventQueue, lastItem, handlerOut, mainOut, trigger, stats>>
    /\ UNCHANGED <<runnerVars, reportVars, fixtureVars, helperVars>>

\* observer.join() returns and watch_and_run with it
JoinReturns ==
    /\ mainPc = "joining"
    /\ observer = "stopped"
    /\ mainPc' = "returned"
    /\ UNCHANGED <<patterns, observer, eventQueue, lastItem, handlerOut, mainOut, trigger, stats>>
    /\ UNCHANGED <<runnerVars, reportVars, fixtureVars, helperVars>>

(***************************************************************************)
(* conftest.py: the autouse fixture setup_test_environment, which pytest    *)
(* runs up to its yield before the body of each test.  A path is the        *)
(* sequence of its components, relative to the directory pytest runs in;    *)
(* at a path there is nothing, a directory or a regular file.               *)
(***************************************************************************)
TestResults == <<"test-results">>
Screenshots == <<"test-results", "screenshots">>
Videos == <<"test-results", "videos">>
Traces == <<"test-results", "traces">>
Har == <<"test-results", "har">>

Paths == {TestResults, Screenshots, Videos, Traces, Har}

\* os.path.split(path)[0]
Parent(path) == SubSeq(path, 1, Len(path) - 1)

EmptyTree == [p \in Paths |-> "absent"]

\* the paths below path
Below(path) == {p \in Paths : Len(p) > Len(path) /\ SubSeq(p, 1, Len(path)) = path}

\* os.makedirs(path, exist_ok=True): the missing parents are made first, then
\* the directory; a directory that is there already is accepted, a regular
\* file in its place, or in the place of its parent, raises OSError
RECURSIVE Makedirs(_, _)
Makedirs(fs, path) ==
    LET head == Parent(path)
        up == IF head # <<>> /\ fs[head] = "absent"
              THEN Makedirs(fs, head)
              ELSE [fs |-> fs, raised |-> FALSE]
    IN  IF up.raised THEN up
        ELSE IF head # <<>> /\ up.fs[head] = "file" THEN [fs |-> up.fs, raised |-> TRUE]
        ELSE IF up.fs[path] = "file" THEN [fs |-> up.fs, raised |-> TRUE]
        ELSE [fs |-> [up.fs EXCEPT ![path] = "dir"], raised |-> FALSE]

\* the os.makedirs calls of the fixture, in order
SetupDirs == <<TestResults, Screenshots, Videos, Traces>>

\* the calls made one after the other, up to the first that raises
RECURSIVE MakeAll(_, _)
MakeAll(fs, dirs) ==
    IF dirs = <<>> THEN [fs |-> fs, raised |-> FALSE]
    ELSE LET made == Makedirs(fs, Head(dirs))
         IN  IF made.raised THEN made ELSE MakeAll(made.fs, Tail(dirs))

\* setup_test_environment up to its yield; when a call raises, pytest reports
\* an error for the test and does not run its body
setup_test_environment ==
    /\ testPc = "between"
    /\ LET made == MakeAll(tree, SetupDirs)
       IN  /\ tree' = made.fs
           /\ testPc' = IF made.raised THEN "setup error" ELSE "body"
    /\ UNCHANGED <<runnerVars, reportVars, watchVars, helperVars>>

\* the body of the test runs and ends; a test that records a HAR makes the
\* directory of its HAR file; after the yield the fixture does nothing
TestBody ==
    /\ testPc = "body"
    /\ tree' \in {tree, Makedirs(tree, Har).fs}
    /\ testPc' = "between"
    /\ UNCHANGED <<runnerVars, reportVars, watchVars, helperVars>>

\* pytest has reported the error of the fixture
SetupErrorReported ==
    /\ testPc = "setup error"
    /\ testPc' = "between"
    /\ UNCHANGED tree
    /\ UNCHANGED <<runnerVars, reportVars, watchVars, helperVars>>

\* between two tests the tree is changed from outside: a path and all below it
\* are removed, or a regular file is put at a free path in a directory
TreeChanges ==
    /\ testPc = "between"
    /\ \E p \in Paths :
          \/ /\ tree[p] # "absent"
             /\ tree' = [q \in Paths |-> IF q = p \/ q \in Below(p) THEN "absent" ELSE tree[q]]
          \/ /\ tree[p] = "absent"
             /\ IF Parent(p) = <<>> THEN TRUE ELSE tree[Parent(p)] = "dir"
             /\ tree' = [tree EXCEPT ![p] = "file"]
    /\ UNCHANGED testPc
    /\ UNCHANGED <<runnerVars, reportVars, watchVars, helperVars>>

InitFixture ==
    /\ tree = EmptyTree
    /\ testPc = "between"

\* a pytest session: one test after the other
NextFixture ==
    \/ setup_test_environment
    \/ TestBody
    \/ SetupErrorReported
    \/ TreeChanges

(***************************************************************************)
(* src/test_helpers.py: APITestHelper.make_request_with_retry.  A response *)
(* is its status; an attempt that raises raises the exception named.  The  *)
(* local variable response is <<>> while it is unbound.  Times are tenths   *)
(* of a second.                                                             *)
(***************************************************************************)
Statuses == {200, 404, 500, 503}
Exceptions == {"TimeoutError"}

\* what one attempt, the request made through api_context, comes to
AttemptOutcomes ==
    {[status |-> st] : st \in Statuses} \cup {[exception |-> e] : e \in Exceptions}

IsResponse(result) == "status" \in DOMAIN result

\* the configurations: the defaults of APIConfig, or fields assigned since
RetryDelays == {DefaultRetryDelay, 5}
Configs ==
    [retry_count : {DefaultRetryCount} \cup (0..MaxRetryCount), retry_delay : RetryDelays]

IdleRetry == [pc |-> "idle", attempt |-> 0, response |-> <<>>]

\* the call ends: it returns a response, or raises
Returned(r, response) ==
    [pc |-> "returned", attempt |-> r.attempt, response |-> <<response>>,
     result |-> response]
Raised(r, exception) ==
    [pc |-> "raised", attempt |-> r.attempt, response |-> r.response,
     exception |-> exception]

\* "return response" after the loop; an unbound response is an UnboundLocalError
FinalReturn(r) ==
    IF r.response = <<>> THEN Raised(r, "UnboundLocalError")
    ELSE Returned(r, r.response[1])

\* the loop goes to its next index, or ends when range(retry_count) is used up
NextAttempt(r) ==
    LET stepped == [r EXCEPT !.attempt = @ + 1]
    IN  IF stepped.attempt >= config.retry_count
        THEN FinalReturn(stepped)
        ELSE [stepped EXCEPT !.pc = "attempting"]

\* time.sleep(self.config.retry_delay * (attempt + 1))
BackoffDelay_Flat(attempt) == config.retry_delay

BackoffDelay(attempt) == config.retry_delay * (attempt + 1)

\* the call is made: the loop is entered, or passed over when retry_count is 0
make_request_with_retry ==
    /\ retry.pc = "idle"
    /\ retry' = IF config.retry_count <= 0 THEN FinalReturn(retry)
                ELSE [retry EXCEPT !.pc = "attempting"]
    /\ UNCHANGED <<config, retryLog>>
    /\ UNCHANGED <<runnerVars, reportVars, watchVars, fixtureVars, perfVars, scriptVars>>

Attempt_RetriesClientErrors ==
    /\ retry.pc = "attempting"
    /\ \E result \in AttemptOutcomes :
          LET made == Append(retryLog, [attempt |-> retry.attempt, outcome |-> result])
          IN  IF IsResponse(result)
              THEN /\ retryLog' = made
                   /\ retry' = IF result.status < 400
                               THEN Returned(retry, result.status)
                               ELSE NextAttempt([retry EXCEPT !.response = <<result.status>>])
              ELSE IF retry.attempt = config.retry_count - 1
              THEN /\ retryLog' = made
                   /\ retry' = Raised(retry, result.exception)
              ELSE /\ retryLog' = Append(made, [sleep |-> BackoffDelay(retry.attempt)])
                   /\ retry' = NextAttempt(retry)
    /\ UNCHANGED config
    /\ UNCHANGED <<runnerVars, reportVars, watchVars, fixtureVars, perfVars, scriptVars>>

\* one pass of the loop body: the request is made; a response below 500 is
\* returned, another response is kept and the loop goes on; an exception is
\* raised again in the last pass and is followed by a sleep in any other
Attempt ==
    /\ retry.pc = "attempting"
    /\ \E result \in AttemptOutcomes :
          LET made == Append(retryLog, [attempt |-> retry.attempt, outcome |-> result])
          IN  IF IsResponse(result)
              THEN /\ retryLog' = made
                   /\ retry' = IF result.status < 500
                               THEN Returned(retry, result.status)
                               ELSE NextAttempt([retry EXCEPT !.response = <<result.status>>])
              ELSE IF retry.attempt = config.retry_count - 1
              THEN /\ retryLog' = made
                   /\ retry' = Raised(retry, result.exception)
              ELSE /\ retryLog' = Append(made, [sleep |-> BackoffDelay(retry.attempt)])
                   /\ retry' = NextAttempt(retry)
    /\ UNCHANGED config
    /\ UNCHANGED <<runnerVars, reportVars, watchVars, fixtureVars, perfVars, scriptVars>>

(***************************************************************************)
(* src/test_helpers.py: PerformanceHelper.measure_multiple_requests.  In   *)
(* the concurrent mode the caller starts one thread per request, joins     *)
(* them in the order it started them, and then empties the queue; a worker *)
(* calls request_func and puts what came of it in the queue.  The k-th     *)
(* request does the same in both modes.  A time is a whole number; the     *)
(* average is kept as the pair of its sum and its divisor.                 *)
(***************************************************************************)
RequestOutcomes == {[time |-> 2], [error |-> "boom"]}

Succeeds(o) == "time" \in DOMAIN o

Measurements ==
    UNION { {[count |-> n, outcomes |-> os] : os \in [1..n -> RequestOutcomes]}
            : n \in 0..MaxCount }

IdleMeasure == [pc |-> "idle"]

RECURSIVE Sum(_)
Sum(times) == IF times = <<>> THEN 0 ELSE Head(times) + Sum(Tail(times))

\* the statistics both modes compute of response_times: the average (as sum
\* and number), min(response_times) and max(response_times)
TimeStatistics(response_times) ==
    LET times == {response_times[i] : i \in 1..Len(response_times)}
        least == CHOOSE t \in times : \A u \in times : t <= u
        greatest == CHOOSE t \in times : \A u \in times : t >= u
    IN  [average_response_time |->
            IF response_times # <<>> THEN <<Sum(response_times), Len(response_times)>>
            ELSE <<0, 1>>,
         min_response_time |-> IF response_times # <<>> THEN least ELSE 0,
         max_response_time |-> IF response_times # <<>> THEN greatest ELSE 0]

SequentialResult_CountsAll(count, response_times, errors) ==
    [total_requests |-> count,
     successful_requests |-> count,
     error_count |-> errors,
     statistics |-> TimeStatistics(response_times),
     response_times |-> response_times]

\* the dict _measure_sequential_requests returns
SequentialResult(count, response_times, errors) ==
    [total_requests |-> count,
     successful_requests |-> count - errors,
     error_count |-> errors,
     statistics |-> TimeStatistics(response_times),
     response_times |-> response_times]

\* the dict _measure_concurrent_requests returns
ConcurrentResult(count, response_times, errors) ==
    [total_requests |-> count,
     successful_requests |-> Len(response_times),
     error_count |-> errors,
     statistics |-> TimeStatistics(response_times),
     response_times |-> response_times]

\* measure_multiple_requests(request_func, count, concurrent) is called
measure_multiple_requests ==
    /\ measure.pc = "idle"
    /\ \E concurrent \in BOOLEAN :
          /\ measured[concurrent] = NoResult
          /\ measure' =
                [pc |-> IF ~concurrent THEN "looping"
                        ELSE IF requests.count = 0 THEN "joining" ELSE "starting",
                 concurrent |-> concurrent, i |-> 0,
                 response_times |-> <<>>, errors |-> 0]
    /\ threads' = [w \in 1..requests.count |-> [pc |-> "new"]]
    /\ result_queue' = <<>>
    /\ UNCHANGED <<requests, measured>>
    /\ UNCHANGED <<runnerVars, reportVars, watchVars, fixtureVars, retryVars, scriptVars>>

\* one pass of the sequential loop: request_func returns and its time is
\* appended, or raises and errors is incremented
SequentialRequest ==
    /\ measure.pc = "looping"
    /\ measure.i < requests.count
    /\ LET o == requests.outcomes[measure.i + 1]
       IN  measure' =
             IF Succeeds(o)
             THEN [measure EXCEPT !.i = @ + 1,
                                  !.response_times = Append(@, o.time)]
             ELSE [measure EXCEPT !.i = @ + 1, !.errors = @ + 1]
    /\ UNCHANGED <<requests, threads, result_queue, measured>>
    /\ UNCHANGED <<runnerVars, reportVars, watchVars, fixtureVars, retryVars, scriptVars>>

\* the sequential loop is over: the dict is returned
SequentialReturns ==
    /\ measure.pc = "looping"
    /\ measure.i = requests.count
    /\ measured' = [measured EXCEPT ![FALSE] =
          SequentialResult(requests.count, measure.response_times, measure.errors)]
    /\ measure' = IdleMeasure
    /\ UNCHANGED <<requests, threads, result_queue>>
    /\ UNCHANGED <<runnerVars, reportVars, watchVars, fixtureVars, retryVars, scriptVars>>

\* one pass of the loop that starts the threads
StartThread ==
    /\ measure.pc = "starting"
    /\ threads' = [threads EXCEPT ![measure.i + 1] = [pc |-> "running"]]
    /\ measure' = IF measure.i + 1 = requests.count
                  THEN [measure EXCEPT !.pc = "joining", !.i = 0]
                  ELSE [measure EXCEPT !.i = @ + 1]
    /\ UNCHANGED <<requests, result_queue, measured>>
    /\ UNCHANGED <<runnerVars, reportVars, watchVars, fixtureVars, retryVars, scriptVars>>

\* a worker's call of request_func returns or raises
WorkerRequests ==
    /\ \E w \in DOMAIN threads :
          /\ threads[w].pc = "running"
          /\ threads' = [threads EXCEPT ![w] =
                [pc |-> "requested", outcome |-> requests.outcomes[w]]]
    /\ UNCHANGED <<requests, measure, result_queue, measured>>
    /\ UNCHANGED <<runnerVars, reportVars, watchVars, fixtureVars, retryVars, scriptVars>>

\* a worker puts its result in the queue and ends
WorkerPuts ==
    /\ \E w \in DOMAIN threads :
          /\ threads[w].pc = "requested"
          /\ result_queue' = Append(result_queue,
                IF Succeeds(threads[w].outcome)
                THEN [type |-> "success", time |-> threads[w].outcome.time]
                ELSE [type |-> "error", message |-> threads[w].outcome.error])
          /\ threads' = [threads EXCEPT ![w] = [pc |-> "finished"]]
    /\ UNCHANGED <<requests, measure, measured>>
    /\ UNCHANGED <<runnerVars, reportVars, watchVars, fixtureVars, retryVars, scriptVars>>

JoinThread_NoWait ==
    /\ measure.pc = "joining"
    /\ measure.i < requests.count
    /\ measure' = [measure EXCEPT !.i = @ + 1]
    /\ UNCHANGED <<requests, threads, result_queue, measured>>
    /\ UNCHANGED <<runnerVars, reportVars, watchVars, fixtureVars, retryVars, scriptVars>>

\* one pass of the loop that joins the threads: join returns when the thread
\* has ended
JoinThread ==
    /\ measure.pc = "joining"
    /\ measure.i < requests.count
    /\ threads[measure.i + 1].pc = "finished"
    /\ measure' = [measure EXCEPT !.i = @ + 1]
    /\ UNCHANGED <<requests, threads, result_queue, measured>>
    /\ UNCHANGED <<runnerVars, reportVars, watchVars, fixtureVars, retryVars, scriptVars>>

\* the times of the "success" entries of the queue, in order
TimesOf(queue) ==
    LET successes == SelectSeq(queue, LAMBDA e : e.type = "success")
    IN  [i \in 1..Len(successes) |-> successes[i].time]

\* every thread is joined: the queue is emptied into response_times and
\* errors, and the dict is returned
CollectResults ==
    /\ measure.pc = "joining"
    /\ measure.i = requests.count
    /\ LET response_times == TimesOf(result_queue)
           errors == Len(SelectSeq(result_queue, LAMBDA e : e.type # "success"))
       IN  measured' = [measured EXCEPT ![TRUE] =
             ConcurrentResult(requests.count, response_times, errors)]
    /\ result_queue' = <<>>
    /\ measure' = IdleMeasure
    /\ UNCHANGED <<requests, threads>>
    /\ UNCHANGED <<runnerVars, reportVars, watchVars, fixtureVars, retryVars, scriptVars>>

InitPerf ==
    /\ requests \in Measurements
    /\ measure = IdleMeasure
    /\ threads = <<>>
    /\ result_queue = <<>>
    /\ measured = [concurrent \in BOOLEAN |-> NoResult]

NextPerf ==
    \/ measure_multiple_requests
    \/ SequentialRequest
    \/ SequentialReturns
    \/ StartThread
    \/ WorkerRequests
    \/ WorkerPuts
    \/ JoinThread
    \/ CollectResults

(***************************************************************************)
(* The runner script: utils/test_runners.py run as __main__.  It makes a   *)
(* TestRunner, runs the smoke tests and reports on them, and if they       *)
(* succeeded runs the suite with coverage and reports on that.  An OSError *)
(* raised in create_test_report is caught nowhere and ends the script.     *)
(***************************************************************************)
SmokeReport == "smoke-test-report.html"
FullReport == "full-test-report.html"

\* create_test_report(results, output_file), as the file system lets it end:
\* what it leaves in the files
CreateTestReport(results, output_file, fault) ==
    LET html_content == Render(results)
    IN  CASE fault = "open" -> fileSystem' = fileSystem
          [] fault = "write" ->
                \E written \in PartialWrites(html_content) :
                    fileSystem' = [fileSystem EXCEPT ![output_file] = written]
          [] fault = "none" -> fileSystem' = [fileSystem EXCEPT ![output_file] = html_content]

\* runner = TestRunner(); print(...); the call of runner.run_smoke_tests()
MainRunsSmoke ==
    /\ scriptPc = "start"
    /\ run_smoke_tests
    /\ scriptPc' = "smoke"
    /\ scriptLog' = Append(scriptLog, "call run_smoke_tests")
    /\ UNCHANGED <<smoke_results, full_results, fileSystem>>
    /\ UNCHANGED <<reportVars, watchVars, fixtureVars, retryVars, perfVars>>

\* smoke_results = <what run_smoke_tests returned>;
\* create_test_report(smoke_results, "smoke-test-report.html")
MainReportsSmoke ==
    /\ scriptPc = "smoke" /\ frame = NoCall /\ ret # NoResult
    /\ smoke_results' = ret
    /\ \E fault \in FileFaults :
          /\ CreateTestReport(ret, SmokeReport, fault)
          /\ scriptPc' = IF fault = "none" THEN "smoke reported" ELSE "traceback"
    /\ scriptLog' = scriptLog \o <<"return run_smoke_tests",
                                  "call create_test_report " \o SmokeReport>>
    /\ UNCHANGED full_results
    /\ UNCHANGED <<runnerVars, reportVars, watchVars, fixtureVars, retryVars, perfVars>>

MainRunsCoverage_Unconditional ==
    /\ scriptPc = "smoke reported"
    /\ RunPytest("coverage", Omitted, CoverageArgs(Omitted), NoneEnv)
    /\ scriptPc' = "coverage"
    /\ scriptLog' = Append(scriptLog, "call run_with_coverage")
    /\ UNCHANGED <<smoke_results, full_results, fileSystem>>
    /\ UNCHANGED <<reportVars, watchVars, fixtureVars, retryVars, perfVars>>

\* if smoke_results["success"]: print(...); the call of
\* runner.run_with_coverage()
MainRunsCoverage ==
    /\ scriptPc = "smoke reported"
    /\ smoke_results["success"]
    /\ RunPytest("coverage", Omitted, CoverageArgs(Omitted), NoneEnv)
    /\ scriptPc' = "coverage"
    /\ scriptLog' = Append(scriptLog, "call run_with_coverage")
    /\ UNCHANGED <<smoke_results, full_results, fileSystem>>
    /\ UNCHANGED <<reportVars, watchVars, fixtureVars, retryVars, perfVars>>

\* if smoke_results["success"]: not taken, and the script ends
MainSkipsCoverage ==
    /\ scriptPc = "smoke reported"
    /\ ~smoke_results["success"]
    /\ scriptPc' = "end"
    /\ UNCHANGED <<smoke_results, full_results, fileSystem, scriptLog>>
    /\ UNCHANGED <<runnerVars, reportVars, watchVars, fixtureVars, retryVars, perfVars>>

\* full_results = <what run_with_coverage returned>;
\* create_test_report(full_results, "full-test-report.html")
MainReportsFull ==
    /\ scriptPc = "coverage" /\ frame = NoCall /\ ret # NoResult
    /\ full_results' = ret
    /\ \E fault \in FileFaults :
          /\ CreateTestReport(ret, FullReport, fault)
          /\ scriptPc' = IF fault = "none" THEN "end" ELSE "traceback"
    /\ scriptLog' = scriptLog \o <<"return run_with_coverage",
                                  "call create_test_report " \o FullReport>>
    /\ UNCHANGED smoke_results
    /\ UNCHANGED <<runnerVars, reportVars, watchVars, fixtureVars, retryVars, perfVars>>

\* a process in which the script has not been run
InitScript ==
    /\ scriptPc = "start"
    /\ smoke_results = NoResult
    /\ full_results = NoResult
    /\ fileSystem = [f \in {SmokeReport, FullReport} |-> NoFile]
    /\ scriptLog = <<>>

\* the script's steps, and those of _run_pytest inside the run it waits for
NextMain ==
    \/ MainRunsSmoke
    \/ SubprocessStarts /\ UNCHANGED <<reportVars, watchVars, fixtureVars, helperVars>>
    \/ SubprocessFailsToStart /\ UNCHANGED <<reportVars, watchVars, fixtureVars, helperVars>>
    \/ RunPytestReturns /\ UNCHANGED <<reportVars, watchVars, fixtureVars, helperVars>>
    \/ MainReportsSmoke
    \/ MainRunsCoverage
    \/ MainSkipsCoverage
    \/ MainReportsFull

\* a process that measures nothing
NoMeasurement ==
    /\ requests = [count |-> 0, outcomes |-> <<>>]
    /\ measure = IdleMeasure
    /\ threads = <<>>
    /\ result_queue = <<>>
    /\ measured = [concurrent \in BOOLEAN |-> NoResult]
    /\ InitScript

InitRetry ==
    /\ config \in Configs
    /\ retry = IdleRetry
    /\ retryLog = <<>>
    /\ NoMeasurement

\* the one helper of a process that makes no request
InitHelpers ==
    /\ config = [retry_count |-> DefaultRetryCount, retry_delay |-> DefaultRetryDelay]
    /\ retry = IdleRetry
    /\ retryLog = <<>>
    /\ NoMeasurement

NextRetry ==
    \/ make_request_with_retry
    \/ Attempt

InitRunner ==
    /\ environ \in AmbientEnvs
    /\ runner \in {NewRunner(b) : b \in BaseDirArgs}
    /\ procs = {}
    /\ frame = NoCall
    /\ ret = NoResult
    /\ outcome = NoOutcome

InitReport ==
    /\ reportIn = NoResult
    /\ reportFile = NoFile
    /\ repeat = [sameIn |-> FALSE, sameOut |-> FALSE]
    /\ openFiles = {}
    /\ reportCall = [exit |-> "none", doc |-> NoFile]

InitWatch ==
    /\ mainPc = "idle"
    /\ patterns = <<>>
    /\ observer = "new"
    /\ eventQueue = <<>>
    /\ lastItem = <<>>
    /\ handlerOut = <<>>
    /\ mainOut = <<>>
    /\ trigger = NoEntry
    /\ stats = [emitted |-> 0, runs |-> 0, arrivedIdle |-> 0]

Init == InitRunner /\ InitReport /\ InitWatch /\ InitFixture /\ InitHelpers

\* a caller makes TestRunner calls one after the other
Next ==
    \/ run_smoke_tests /\ UNCHANGED <<reportVars, watchVars, fixtureVars, helperVars>>
    \/ run_api_tests /\ UNCHANGED <<reportVars, watchVars, fixtureVars, helperVars>>
    \/ run_ui_tests /\ UNCHANGED <<reportVars, watchVars, fixtureVars, helperVars>>
    \/ run_integration_tests /\ UNCHANGED <<reportVars, watchVars, fixtureVars, helperVars>>
    \/ run_performance_tests /\ UNCHANGED <<reportVars, watchVars, fixtureVars, helperVars>>
    \/ run_parallel_tests /\ UNCHANGED <<reportVars, watchVars, fixtureVars, helperVars>>
    \/ run_with_coverage /\ UNCHANGED <<reportVars, watchVars, fixtureVars, helperVars>>
    \/ run_browser_specific_tests /\ UNCHANGED <<reportVars, watchVars, fixtureVars, helperVars>>
    \/ SubprocessStarts /\ UNCHANGED <<reportVars, watchVars, fixtureVars, helperVars>>
    \/ SubprocessFailsToStart /\ UNCHANGED <<reportVars, watchVars, fixtureVars, helperVars>>
    \/ RunPytestReturns /\ UNCHANGED <<reportVars, watchVars, fixtureVars, helperVars>>

Spec == Init /\ [][Next]_vars

\* a caller writes reports one after the other
NextReport == create_test_report

\* a process with the default runner and an empty environment
InitOneRunner ==
    /\ environ = EmptyEnv
    /\ runner = NewRunner(Omitted)
    /\ procs = {}
    /\ frame = NoCall
    /\ ret = NoResult
    /\ outcome = NoOutcome

InitProcess == InitOneRunner /\ InitReport /\ InitWatch /\ InitFixture /\ InitHelpers

SpecReport == InitProcess /\ [][NextReport]_vars

\* a watch session
NextWatch ==
    \/ WatchdogMissing
    \/ WatchAndRun
    \/ EmitEvent
    \/ DispatchEvent
    \/ WatchRunStarts
    \/ WatchRunFailsToStart
    \/ WatchRunReturns
    \/ KeyboardInterrupt
    \/ ObserverExits
    \/ JoinReturns

SpecWatch == InitProcess /\ [][NextWatch]_vars

SpecFixture == InitProcess /\ [][NextFixture]_vars

\* a request with retry, under any configuration
InitRetryProcess == InitOneRunner /\ InitReport /\ InitWatch /\ InitFixture /\ InitRetry

SpecRetry == InitRetryProcess /\ [][NextRetry]_vars

\* a measurement in each mode, of the same requests
InitPerfProcess ==
    /\ InitOneRunner /\ InitReport /\ InitWatch /\ InitFixture
    /\ config = [retry_count |-> DefaultRetryCount, retry_delay |-> DefaultRetryDelay]
    /\ retry = IdleRetry
    /\ retryLog = <<>>
    /\ InitPerf
    /\ InitScript

SpecPerf == InitPerfProcess /\ [][NextPerf]_vars

\* the runner script, run once in a fresh process
SpecMain == InitProcess /\ [][NextMain]_vars

\* a watch session in which subprocess.run gets to start the child or to fail,
\* and in which a child that runs comes to its exit
SpecWatchLive ==
    /\ InitProcess
    /\ [][NextWatch]_vars
    /\ WF_vars(WatchRunStarts \/ WatchRunFailsToStart)
    /\ WF_vars(WatchRunReturns)

(***************************************************************************)
(* Properties of TestRunner.                                               *)
(***************************************************************************)
\* the child process the blocked call waits for
ChildOfFrame == {p \in procs : frame # NoCall /\ frame.stage = "waiting" /\ p.pid = frame.pid}

\* C3: whenever the child was started and exited with code e, the dict returned
\* has returncode e and success = (e = 0).
C3_ExitCodeReported ==
    (outcome # NoOutcome /\ outcome.started) =>
        /\ ret # NoResult
        /\ "returncode" \in DOMAIN ret
        /\ ret.returncode = outcome.exitcode
        /\ ret.success = (outcome.exitcode = 0)

\* C4: when the child could not be started, the call returns a dict with
\* success false, no returncode, and a non-empty error text that is the text of
\* the startup error.
C4_StartupFailureReported ==
    (outcome # NoOutcome /\ ~outcome.started) =>
        /\ ret # NoResult
        /\ ret.success = FALSE
        /\ "returncode" \notin DOMAIN ret
        /\ "error" \in DOMAIN ret
        /\ Len(ret.error) > 0
        /\ ret.error \in
              { "[Errno 2] No such file or directory: '/usr/bin/python3'",
                "[Errno 13] Permission denied: '/usr/bin/python3'",
                "[Errno 2] No such file or directory: '/repo'",
                "[Errno 2] No such file or directory: '/elsewhere'" }

C4_Witness ==
    /\ outcome # NoOutcome /\ ~outcome.started
    /\ outcome.call.method = "coverage"
    /\ ret.error = "[Errno 13] Permission denied: '/usr/bin/python3'"

\* C5: the command of the launched child is the base invocation followed by
\* exactly the argument list of the profile, in order.
C5_CommandSuffixIsProfileArguments ==
    \A p \in ChildOfFrame :
        /\ Len(p.cmd) = 3 + Len(frame.call.args)
        /\ SubSeq(p.cmd, 1, 3) = <<"/usr/bin/python3", "-m", "pytest">>
        /\ \A i \in 1..Len(frame.call.args) : p.cmd[3 + i] = frame.call.args[i]

C5_Witness ==
    \E p \in ChildOfFrame :
        /\ frame.call.method = "performance"
        /\ p.cmd = <<"/usr/bin/python3", "-m", "pytest", "-m", "slow", "-v", "--tb=short">>

\* the catalogue of section 4.2: the arguments of a profile
Catalogue(method, arg) ==
    CASE method = "smoke" -> <<"-m", "smoke", "-v">>
      [] method = "api" -> <<"-m", "api", "-v">>
      [] method = "ui" -> <<"-m", "ui", "-v">>
      [] method = "integration" -> <<"-m", "integration", "-v">>
      [] method = "performance" -> <<"-m", "slow", "-v", "--tb=short">>
      [] method = "parallel" ->
            <<"-n", ToString(IF arg = <<>> THEN 4 ELSE arg[1]), "-v">>
      [] method = "coverage" ->
            <<"--cov=src", "--cov-report=html", "--cov-report=term-missing",
              "--cov-fail-under=" \o ToString(IF arg = <<>> THEN 80 ELSE arg[1]),
              "-v">>
      [] method = "browser" -> <<"-v">>

\* C6: each named profile launches its catalogued argument list, for every
\* value of workers and min_coverage, given or left to its default.
C6_ProfileCatalogue ==
    \A p \in ChildOfFrame :
        SubSeq(p.cmd, 4, Len(p.cmd)) = Catalogue(frame.call.method, frame.call.arg)

C6_Witness ==
    \E p \in ChildOfFrame :
        /\ frame.call.method = "parallel"
        /\ frame.call.arg = <<12>>
        /\ SubSeq(p.cmd, 4, Len(p.cmd)) = <<"-n", "12", "-v">>

\* C7: the child's environment is the ambient environment with the profile's
\* override on top: the browser profile sets PLAYWRIGHT_BROWSER to the browser
\* asked for, whatever the ambient value, and passes every other variable
\* through; every other profile passes exactly the ambient environment.
C7_ChildEnvironment ==
    \A p \in ChildOfFrame :
        IF frame.call.method = "browser"
        THEN /\ p.env["PLAYWRIGHT_BROWSER"] = frame.call.arg[1]
             /\ \A v \in EnvVars \ {"PLAYWRIGHT_BROWSER"} : p.env[v] = environ[v]
        ELSE p.env = environ

C7_Witness ==
    \E p \in ChildOfFrame :
        /\ frame.call.method = "browser"
        /\ frame.call.arg = <<"chromium">>
        /\ environ["PLAYWRIGHT_BROWSER"] = "firefox"
        /\ environ["HEADLESS"] = "true"
        /\ p.env = [PLAYWRIGHT_BROWSER |-> "chromium", HEADLESS |-> "true"]


(***************************************************************************)
(* Reading a report back.  An HTML tokenizer in its data state: "<" before *)
(* a letter opens a tag, which runs to the next ">"; any other "<", and    *)
(* every ">" and "&" that starts no character reference, is text.  (The    *)
(* model's characters form no character reference.)  A piece of the        *)
(* template's markup is a whole tag; inside an open tag it supplies the    *)
(* ">" that ends it.                                                       *)
(***************************************************************************)
TemplateMarkup ==
    { "<!DOCTYPE html>", "<html>", "</html>", "<head>", "</head>", "<title>",
      "</title>", "<style>", "</style>", "<body>", "</body>", "<h1>", "</h1>",
      "<h2>", "</h2>", "<p>", "</p>", "<p class=\"success\">",
      "<p class=\"failure\">", "<code>", "</code>", "<pre>",
      "<pre class=\"failure\">", "</pre>" }

IsLetter(x) == x = "g"

RECURSIVE Tokenize(_, _, _, _)
Tokenize(doc, i, inTag, acc) ==
    IF i > Len(doc) THEN acc
    ELSE IF inTag
    THEN IF doc[i] = ">" \/ doc[i] \in TemplateMarkup
         THEN Tokenize(doc, i + 1, FALSE, Append(acc, [tag |-> "(from text)"]))
         ELSE Tokenize(doc, i + 1, TRUE, acc)
    ELSE IF doc[i] \in TemplateMarkup
    THEN Tokenize(doc, i + 1, FALSE, Append(acc, [tag |-> doc[i]]))
    ELSE IF doc[i] = "<" /\ i < Len(doc) /\ IsLetter(doc[i + 1])
    THEN Tokenize(doc, i + 1, TRUE, acc)
    ELSE Tokenize(doc, i + 1, FALSE, Append(acc, [text |-> doc[i]]))

Parse(doc) == Tokenize(doc, 1, FALSE, <<>>)

IsTag(t) == "tag" \in DOMAIN t

\* the document structure: the tags, in order
Structure(tokens) == SelectSeq(tokens, IsTag)

\* the text content of the first element opened by the tag open: the text
\* between it and the next </pre>
ElementText(tokens, open) ==
    LET starts == {i \in 1..Len(tokens) : tokens[i] = [tag |-> open]}
    IN  IF starts = {} THEN <<"(no element)">>
        ELSE LET a == CHOOSE i \in starts : \A j \in starts : i <= j
                 ends == {i \in (a + 1)..Len(tokens) : tokens[i] = [tag |-> "</pre>"]}
                 b == IF ends = {} THEN Len(tokens) + 1
                      ELSE CHOOSE i \in ends : \A j \in ends : i <= j
                 inside == SubSeq(tokens, a + 1, b - 1)
                 texts == SelectSeq(inside, LAMBDA t : ~IsTag(t))
             IN  [i \in 1..Len(texts) |-> texts[i].text]

\* the same result with every captured character replaced by a letter
PlainText(text) == [i \in 1..Len(text) |-> "g"]
PlainResult(results) ==
    [k \in DOMAIN results |->
        IF k \in {"stdout", "stderr"} THEN PlainText(results[k]) ELSE results[k]]

HasSpecial(text) == \E i \in 1..Len(text) : text[i] \in {"<", ">", "&"}

(***************************************************************************)
(* Properties of create_test_report.                                       *)
(***************************************************************************)
\* C8: for a result whose stdout or stderr contains "<", ">" or "&", the
\* report has the document structure it has for plain text, and reading it
\* back gives the captured stdout and stderr unchanged.
C8_EscapingRoundTrip ==
    (/\ reportIn # NoResult
     /\ reportCall.exit = "returned"
     /\ "stdout" \in DOMAIN reportIn
     /\ HasSpecial(reportIn.stdout) \/ HasSpecial(reportIn.stderr))
    => LET tokens == Parse(reportFile)
       IN  /\ Structure(tokens) = Structure(Parse(Render(PlainResult(reportIn))))
           /\ ElementText(tokens, "<pre>") = reportIn.stdout
           /\ HasStderr(reportIn) =>
                 ElementText(tokens, "<pre class=\"failure\">") = reportIn.stderr

\* the text the report shows after "Status: "
ShownStatus(doc) ==
    LET at == {i \in 1..(Len(doc) - 1) : doc[i] = "Status: "}
    IN  IF at = {} THEN <<>> ELSE <<doc[1 + CHOOSE i \in at : TRUE]>>

\* C9: the report shows the status PASSED exactly when the result's success
\* flag is true and FAILED otherwise, a startup failure (no returncode)
\* included; PASSED appears in the report of every successful result.
C9_StatusText ==
    (reportIn # NoResult /\ reportCall.exit = "returned") =>
        /\ ShownStatus(reportFile) =
              IF "success" \in DOMAIN reportIn /\ reportIn.success = TRUE
              THEN <<"PASSED">> ELSE <<"FAILED">>
        /\ ("returncode" \notin DOMAIN reportIn) => ShownStatus(reportFile) = <<"FAILED">>
        /\ (\E i \in 1..Len(reportFile) : reportFile[i] = "PASSED")
              <=> reportIn.success = TRUE

C9_Witness ==
    /\ reportIn # NoResult
    /\ reportCall.exit = "returned"
    /\ reportIn.success = TRUE
    /\ reportIn.returncode = 0
    /\ reportIn.stdout = <<>>
    /\ reportIn.stderr = <<>>
    /\ \E i \in 1..Len(reportFile) : reportFile[i] = "PASSED"

C1_AtMostOneRunInFlight == Cardinality(procs) <= 1

\* a run is in flight while two events that arrived during it, a matching
\* file modification among them, wait in the queue
C1_Witness ==
    /\ Cardinality(procs) = 1
    /\ frame # NoCall
    /\ Len(eventQueue) = 2
    /\ \A i \in 1..2 : eventQueue[i].midRun
    /\ \E i \in 1..2 :
          IsModified(eventQueue[i].event) /\ PassesFilter(eventQueue[i].event)

\* C2: a matching event that arrives while a run is in flight is dropped: it
\* starts no run after the run in flight has completed, so that once every
\* event has been handled the runs started are as many as the matching events
\* that arrived while no run was in flight.
C2_MidRunEventsDropped ==
    /\ trigger # NoEntry => ~trigger.midRun
    /\ (mainPc = "watching" /\ eventQueue = <<>> /\ ~RunInFlight)
          => stats.runs = stats.arrivedIdle

\* C11: every triggered run that has started is followed by the watcher being
\* idle again, with no run in flight, whether the run passed, failed or could
\* not start its child, provided the child comes to its exit.
C11_RunReturnsToIdle == RunInFlight ~> (~RunInFlight /\ ret # NoResult)

\* the watcher is idle after a second run, which failed
C11_Witness ==
    /\ stats.runs = 2
    /\ ~RunInFlight
    /\ ret # NoResult /\ ~ret.success
    /\ Len(handlerOut) = 4

\* glob matching of a file name: "*" stands for any run of characters, every
\* other character of the model's alphabet for itself
RECURSIVE GlobMatch(_, _)
GlobMatch(pat, name) ==
    IF pat = <<>> THEN name = <<>>
    ELSE IF Head(pat) = "*"
    THEN GlobMatch(Tail(pat), name) \/ (name # <<>> /\ GlobMatch(pat, Tail(name)))
    ELSE name # <<>> /\ Head(name) = Head(pat) /\ GlobMatch(Tail(pat), Tail(name))

\* the path is not a directory and matches one of the configured patterns
MatchesConfigured(event) ==
    /\ ~event.is_directory
    /\ \E i \in 1..Len(patterns) : GlobMatch(patterns[i], event.src_path)

\* C12: the dispatch of an event to the idle watcher starts a run only if the
\* path is not a directory and matches a configured glob pattern (*.py when
\* none was given), and the dispatch of a file modification whose path matches
\* does start one.
C12_TriggeredIffMatch ==
    [][(eventQueue # <<>> /\ eventQueue' = Tail(eventQueue)) =>
          LET event == Head(eventQueue).event
              started == stats'.runs = stats.runs + 1
          IN  /\ started => MatchesConfigured(event)
              /\ (IsModified(event) /\ MatchesConfigured(event)) => started]_vars

\* C13: the stop signal leaves a run in flight alone: the step that takes the
\* signal changes neither the child nor the call that waits for it,
\* watch_and_run returns only when no run is in flight, and a child that goes
\* away while the session is stopping has exited and had its result handed to
\* on_modified, which printed its verdict.
C13_StopLetsRunFinish ==
    /\ [](mainPc = "returned" => ~RunInFlight)
    /\ [][/\ (mainPc = "watching" /\ mainPc' = "joining") =>
                (procs' = procs /\ frame' = frame)
          /\ (observer # "running" /\ procs \ procs' # {}) =>
                /\ mainPc' # "returned"
                /\ outcome' # NoOutcome /\ outcome'.started
                /\ procs = procs' \cup {outcome'.proc}
                /\ ret' = ExitResult(outcome'.proc.cmd, outcome'.exitcode,
                                     outcome'.out[1], outcome'.out[2])
                /\ Len(handlerOut') > Len(handlerOut)]_vars

\* the stop signal has been taken while the child of a triggered run runs
C13_Witness ==
    /\ mainPc = "joining"
    /\ observer = "stopping"
    /\ Cardinality(procs) = 1
    /\ frame # NoCall /\ frame.stage = "waiting"

\* C14: when watchdog cannot be imported, watch_and_run prints its message
\* and returns; no observer is started, no event is taken and no run is made.
C14_BackendUnavailable ==
    /\ (mainPc = "returned" /\ observer = "new") =>
          /\ mainOut = <<"watchdog package required for file watching. Install with: pip install watchdog">>
          /\ ~RunInFlight
          /\ ret = NoResult
          /\ handlerOut = <<>>
          /\ stats = [emitted |-> 0, runs |-> 0, arrivedIdle |-> 0]
    /\ mainPc \in {"idle", "watching", "joining", "returned"}

C14_Witness ==
    /\ mainPc = "returned"
    /\ observer = "new"
    /\ Len(mainOut) = 1

\* C15: when the destination cannot be written the call raises, and the
\* destination then holds either the whole new report or what it held before
\* the call; a call that raises leaves no emptied or partly written file.
C15_NoPartialReport ==
    [][reportCall'.exit \in {"open raised", "write raised"} =>
          reportFile' \in {reportFile, reportCall'.doc}]_vars

\* C16: after create_test_report has returned or raised, whether open() or the
\* write failed, the file object the call opened is closed.
C16_HandleReleased ==
    /\ openFiles = {}
    /\ reportCall.exit \in {"none", "returned", "open raised", "write raised"}

\* a write failed in a call that had the file open, leaving a partial report
C16_Witness ==
    /\ reportCall.exit = "write raised"
    /\ Len(reportFile) = Len(reportCall.doc) - 1
    /\ openFiles = {}

\* C17: a run call is synchronous: a child runs only while the call that
\* launched it is blocked waiting for it, a call that has returned has no child
\* left, and so at most one child of sequential calls exists at a time: the
\* child of one call has exited before the next call launches its own.
C17_CallsAreSynchronous ==
    /\ \A p \in procs : frame # NoCall /\ frame.stage = "waiting" /\ frame.pid = p.pid
    /\ ret # NoResult => (frame = NoCall /\ procs = {})
    /\ (ret # NoResult /\ outcome.started) => outcome.proc \notin procs
    /\ Cardinality(procs) <= 1

\* an api run has returned the exit code 0 of its child, which has gone
C17_Witness ==
    /\ ret # NoResult
    /\ outcome # NoOutcome /\ outcome.started
    /\ outcome.call.method = "api"
    /\ ret.returncode = 0
    /\ procs = {}

\* C18: a run call launches its child at most once: a child is launched only
\* by a call that has launched none, the call then waits for that child, and
\* once the child has exited, or could not be started, the call returns,
\* whatever the exit code or the error.
C18_NoRetry ==
    [][/\ (procs' \ procs # {}) =>
            /\ Cardinality(procs' \ procs) = 1
            /\ frame # NoCall /\ frame.stage = "starting"
            /\ frame' # NoCall /\ frame'.stage = "waiting" /\ frame'.call = frame.call
       /\ (frame # NoCall /\ frame.stage = "waiting" /\ frame' # frame) =>
            (frame' = NoCall /\ ret' # NoResult)
       /\ (frame # NoCall /\ frame.stage = "starting" /\ frame' # frame) =>
            \/ frame' # NoCall /\ frame'.stage = "waiting" /\ frame'.call = frame.call
            \/ frame' = NoCall /\ ret' # NoResult /\ ~ret'.success]_vars

\* a parallel run has returned the failure of its one child
C18_Witness ==
    /\ ret # NoResult
    /\ outcome # NoOutcome /\ outcome.started
    /\ outcome.call.method = "parallel"
    /\ outcome.exitcode = 1
    /\ "returncode" \in DOMAIN ret /\ ret.returncode = 1
    /\ frame = NoCall

C20_OutputDirectoriesExist ==
    testPc = "body" =>
        \A p \in {Screenshots, Videos, Traces, Har} : tree[p] = "dir"

IsAttempt(entry) == "attempt" \in DOMAIN entry
IsSleep(entry) == "sleep" \in DOMAIN entry
AttemptsMade == SelectSeq(retryLog, IsAttempt)
RetryEnded == retry.pc \in {"returned", "raised"}
GotStatus(entry) == IsAttempt(entry) /\ "status" \in DOMAIN entry.outcome
GotException(entry) == IsAttempt(entry) /\ "exception" \in DOMAIN entry.outcome

\* C22: an attempt whose response has a status below 500 is the last thing
\* the call does: no attempt and no sleep follows it, and the call has
\* returned that response; a 4xx response is never followed by a retry.
C22_NoRetryBelow500 ==
    \A i \in 1..Len(retryLog) :
        (GotStatus(retryLog[i]) /\ retryLog[i].outcome.status < 500) =>
            /\ i = Len(retryLog)
            /\ retry.pc = "returned"
            /\ retry.result = retryLog[i].outcome.status

\* a 503 was retried and the 404 that followed was returned
C22_Witness ==
    /\ Len(retryLog) = 2
    /\ GotStatus(retryLog[1]) /\ retryLog[1].outcome.status = 503
    /\ GotStatus(retryLog[2]) /\ retryLog[2].outcome.status = 404
    /\ retry.pc = "returned" /\ retry.result = 404

\* C23: the call makes at most retry_count attempts and has ended once it
\* has made that many; an exception of an attempt before the last is followed
\* by a sleep of retry_delay * (attempt + 1) and the call goes on, and an
\* exception of the last attempt ends the call, which raises it.
C23_BoundedAttempts ==
    /\ Len(AttemptsMade) <= config.retry_count
    /\ (retry.pc # "idle" /\ Len(AttemptsMade) = config.retry_count) => RetryEnded
    /\ \A i \in 1..Len(AttemptsMade) : AttemptsMade[i].attempt = i - 1
    /\ \A i \in 1..Len(retryLog) :
          GotException(retryLog[i]) =>
              IF retryLog[i].attempt < config.retry_count - 1
              THEN /\ i < Len(retryLog)
                   /\ retryLog[i + 1] =
                         [sleep |-> config.retry_delay * (retryLog[i].attempt + 1)]
              ELSE /\ i = Len(retryLog)
                   /\ retry.pc = "raised"
                   /\ retry.exception = retryLog[i].outcome.exception

\* three attempts raised: two sleeps, of 1 s and of 2 s, and the third raised
C23_Witness ==
    /\ config = [retry_count |-> 3, retry_delay |-> 10]
    /\ Len(retryLog) = 5
    /\ GotException(retryLog[1]) /\ retryLog[2] = [sleep |-> 10]
    /\ GotException(retryLog[3]) /\ retryLog[4] = [sleep |-> 20]
    /\ GotException(retryLog[5])
    /\ retry.pc = "raised" /\ retry.exception = "TimeoutError"

\* C24: when every attempt of a call that has ended got a response of 500 or
\* above, retry_count attempts were made, the response of the last was
\* returned, and each attempt but the last was followed by the backoff sleep
\* of retry_delay * (attempt + 1).
C24_ServerErrorsBackOff ==
    (/\ RetryEnded
     /\ Len(AttemptsMade) > 0
     /\ \A i \in 1..Len(AttemptsMade) :
            GotStatus(AttemptsMade[i]) /\ AttemptsMade[i].outcome.status >= 500)
    => /\ Len(AttemptsMade) = config.retry_count
       /\ retry.pc = "returned"
       /\ retry.result = AttemptsMade[Len(AttemptsMade)].outcome.status
       /\ \A i \in 1..Len(retryLog) :
              (IsAttempt(retryLog[i]) /\ retryLog[i].attempt < config.retry_count - 1) =>
                  /\ i < Len(retryLog)
                  /\ retryLog[i + 1] =
                        [sleep |-> config.retry_delay * (retryLog[i].attempt + 1)]

\* C25: for every retry_count >= 0, a call that has ended has returned a
\* response one of its attempts got, or has raised the exception of its last
\* attempt.
C25_EndsWithResponseOrLastException ==
    (RetryEnded /\ config.retry_count >= 0) =>
        \/ /\ retry.pc = "returned"
           /\ \E i \in 1..Len(retryLog) :
                 GotStatus(retryLog[i]) /\ retryLog[i].outcome.status = retry.result
        \/ /\ retry.pc = "raised"
           /\ retryLog # <<>>
           /\ GotException(retryLog[Len(retryLog)])
           /\ retryLog[Len(retryLog)].outcome.exception = retry.exception

(***************************************************************************)
(* Properties of PerformanceHelper.measure_multiple_requests.              *)
(***************************************************************************)
\* the requests of the measurement in which request_func returns
SucceedingRequests == {k \in 1..requests.count : Succeeds(requests.outcomes[k])}

\* C26: the concurrent mode collects after every worker has ended: whatever
\* the interleaving, the dict it returns counts each of the count outcomes
\* once: successful_requests + error_count = total_requests = count, there
\* are as many response times as successes, and the successes and errors are
\* those of the requests.
C26_ConcurrentCountsEveryOutcome ==
    /\ measured[TRUE] # NoResult =>
          LET r == measured[TRUE]
          IN  /\ r.total_requests = requests.count
              /\ r.successful_requests + r.error_count = r.total_requests
              /\ Len(r.response_times) = r.successful_requests
              /\ r.successful_requests = Cardinality(SucceedingRequests)
    /\ (measure.pc = "joining" /\ measure.i = requests.count) =>
          /\ \A w \in DOMAIN threads : threads[w].pc = "finished"
          /\ Len(result_queue) = requests.count

\* three workers, the second of which failed, have been collected: the dict
\* counts two successes and one error
C26_Witness ==
    /\ measured[TRUE] # NoResult
    /\ requests.count = 3
    /\ ~Succeeds(requests.outcomes[2])
    /\ measured[TRUE].successful_requests = 2
    /\ measured[TRUE].error_count = 1

\* C27: for the same requests the two modes return the same total_requests,
\* successful_requests and error_count, and in each dict the successes and
\* the errors add up to the total.
C27_ModesAgree ==
    /\ (measured[FALSE] # NoResult /\ measured[TRUE] # NoResult) =>
          /\ measured[FALSE].total_requests = measured[TRUE].total_requests
          /\ measured[FALSE].successful_requests = measured[TRUE].successful_requests
          /\ measured[FALSE].error_count = measured[TRUE].error_count
    /\ \A concurrent \in BOOLEAN :
          measured[concurrent] # NoResult =>
              measured[concurrent].successful_requests + measured[concurrent].error_count
                  = measured[concurrent].total_requests

\* both modes have measured three requests of which the first failed
C27_Witness ==
    /\ measured[FALSE] # NoResult /\ measured[TRUE] # NoResult
    /\ requests.count = 3
    /\ ~Succeeds(requests.outcomes[1])
    /\ measured[FALSE].error_count = 1
    /\ measured[TRUE].response_times = <<2, 2>>

(***************************************************************************)
(* Properties of the dicts TestRunner returns, of the ambient environment  *)
(* and of the runner script.                                               *)
(***************************************************************************)
\* C28: every dict a run operation returns has "success" and "command", and
\* has the keys returncode, stdout and stderr and no error when the child
\* process was started, and the key error and no returncode when it was not;
\* returncode and error are never both present and never both absent.
C28_OutcomeShapeFollowsStart ==
    ret # NoResult =>
        /\ {"success", "command"} \subseteq DOMAIN ret
        /\ ("returncode" \in DOMAIN ret) # ("error" \in DOMAIN ret)
        /\ outcome.started =>
              /\ {"returncode", "stdout", "stderr"} \subseteq DOMAIN ret
              /\ "error" \notin DOMAIN ret
        /\ ~outcome.started =>
              /\ "error" \in DOMAIN ret
              /\ "returncode" \notin DOMAIN ret

\* C29: no step of a TestRunner call changes os.environ, and the child a call
\* other than run_browser_specific_tests starts gets the ambient environment;
\* the browser asked for is in the environment of the browser run's child only.
C29_AmbientEnvironmentKept ==
    [][ /\ environ' = environ
        /\ \A p \in procs' \ procs :
              frame.call.method # "browser" => p.env = environ ]_vars

\* a browser run for webkit has returned; its child had PLAYWRIGHT_BROWSER =
\* webkit, and os.environ still has firefox
C29_Witness ==
    /\ outcome # NoOutcome /\ outcome.started
    /\ outcome.call.method = "browser"
    /\ outcome.call.arg = <<"webkit">>
    /\ outcome.proc.env["PLAYWRIGHT_BROWSER"] = "webkit"
    /\ environ["PLAYWRIGHT_BROWSER"] = "firefox"

\* the calls of a script run that goes all the way, in their order
FullSequence ==
    << "call run_smoke_tests", "return run_smoke_tests",
       "call create_test_report smoke-test-report.html",
       "call run_with_coverage", "return run_with_coverage",
       "call create_test_report full-test-report.html" >>

\* the children of the coverage run
CoverageChildren == {p \in procs : p.cmd = RunPytestCmd(CoverageArgs(Omitted))}

CoverageRunBegun ==
    \/ CoverageChildren # {}
    \/ frame # NoCall /\ frame.call.method = "coverage"
    \/ \E i \in 1..Len(scriptLog) : scriptLog[i] = "call run_with_coverage"

\* C30: the script's calls come in the order smoke run, smoke report, coverage
\* run, full report, each after the one before it has returned; the coverage
\* run begins only after a smoke run that succeeded and whose report is in its
\* file; the full report is written only after the coverage run has returned;
\* and after a smoke run that failed no coverage run begins.
C30_MainSequence ==
    /\ Len(scriptLog) <= Len(FullSequence)
    /\ scriptLog = SubSeq(FullSequence, 1, Len(scriptLog))
    /\ Len(scriptLog) < 3 =>
          /\ fileSystem = [f \in {SmokeReport, FullReport} |-> NoFile]
          /\ \A p \in procs : p.cmd = RunPytestCmd(SmokeArgs)
    /\ CoverageRunBegun =>
          /\ smoke_results # NoResult
          /\ smoke_results.success = TRUE
          /\ fileSystem[SmokeReport] = Render(smoke_results)
    /\ (smoke_results # NoResult /\ smoke_results.success = FALSE) =>
          /\ ~CoverageRunBegun
          /\ full_results = NoResult
          /\ fileSystem[FullReport] = NoFile
    /\ fileSystem[FullReport] # NoFile =>
          /\ full_results # NoResult
          /\ Len(scriptLog) = Len(FullSequence)
          /\ procs = {} /\ frame = NoCall

\* the script has run to its end after both runs: the smoke run succeeded, the
\* coverage run failed, and each report is in its file
C30_Witness ==
    /\ scriptPc = "end"
    /\ scriptLog = FullSequence
    /\ smoke_results.success = TRUE
    /\ full_results.success = FALSE
    /\ fileSystem[SmokeReport] = Render(smoke_results)
    /\ fileSystem[FullReport] = Render(full_results)

====
